---- MODULE Spec2Model ----
(***************************************************************************)
(* Model of redash/query_runner/python.py: the Python query runner, which  *)
(* compiles a script with RestrictedPython, runs it once in a curated      *)
(* namespace and returns (json_data, error).                               *)
(*                                                                         *)
(* One Python instance is modelled.  Its fields are the variables below.   *)
(* A script is modelled by the calls it makes on the namespace run_query   *)
(* hands it (print, enable/disable_print_log, add_result_column,           *)
(* add_result_row, __import__, raise); an exception raised by a call       *)
(* leaves the script body and reaches the except clause of run_query.      *)
(***************************************************************************)
EXTENDS Integers, Sequences, FiniteSets, TLC

\* ------------------------------------------------------------------ bounds
MaxOps == 4       \* run_query calls plus the calls their scripts make
MaxImports == 2   \* imports one concurrent execution makes
MaxOperand == 3   \* largest x and y handed to custom_inplacevar

\* ------------------------------------------------------ values and inputs
\* Python None; every nullable value of the model is a tuple
None == << >>

\* characters that str.strip() removes
Whitespace == {" ", "\n"}

\* texts handed to CustomPrint.write, as character sequences
Texts == {<< >>, <<"\n">>, <<" ", "a">>}

\* readings of datetime.datetime.utcnow().isoformat()
Times == {"t1"}

\* module names a script may ask for, as character-level strings
ModuleNames == {<<"json">>, <<"math">>, <<"os">>}

\* the configurations the instance may be constructed with: the value of
\* allowedImportModules as a character-level string split at ","
Configurations == { << >>, <<"json", ",", "math">> }

\* redash.query_runner.SUPPORTED_COLUMN_TYPES (TYPE_* constants)
SUPPORTED_COLUMN_TYPES ==
    {"boolean", "integer", "float", "string", "date", "datetime"}

\* column types a script passes
ColumnTypeArgs == {"integer", "date", "text"}

ColumnNames == {"x"}

FriendlyNames == {"X"}

\* values a script puts in a row; Obj is a value json_dumps cannot encode
Obj == "object()"
RowValues == {"1", Obj}

\* redash.query_runner TYPE_* constants
TYPE_BOOLEAN == "boolean"
TYPE_FLOAT == "float"
TYPE_INTEGER == "integer"
TYPE_DATETIME == "datetime"
TYPE_DATE == "date"
TYPE_STRING == "string"

\* a string of n characters
Chars(n) == [i \in 1..n |-> "0"]

\* cell values of a datetime column: a day at midnight, a time of day
DayValue == "Timestamp(2020-01-01 00:00:00)"
TimeValue == "Timestamp(2020-01-01 00:00:01)"

\* Series.astype(str) on one cell: the text pandas renders the value as
AsStr(v) ==
    IF v = DayValue THEN Chars(10)
    ELSE IF v = TimeValue THEN Chars(19)
    ELSE Chars(1)

\* a pandas DataFrame: index labels, columns with dtypes, rows in order
Frame(index, columns, data) ==
    [index |-> index, columns |-> columns, data |-> data]

DatetimeColumn == [name |-> "d", dtype |-> "datetime64[ns]"]
IntegerColumn == [name |-> "x", dtype |-> "int64"]

\* the frames a script hands to dataframe_to_result
Frames ==
    { Frame(<< >>, <<DatetimeColumn>>, << >>),
      Frame(<<0>>, <<IntegerColumn, DatetimeColumn>>,
            << [x |-> "1", d |-> DayValue] >>),
      Frame(<<0>>, <<DatetimeColumn>>, << [d |-> TimeValue] >>),
      Frame(<<5>>, <<DatetimeColumn>>, << [d |-> DayValue] >>) }

\* the executions that share the instance in SpecConc
Threads == {1, 2}

\* exception classes a script body can raise
ExceptionKinds == {"Exception", "BaseException"}

VARIABLES
    configuration,    \* self.configuration["allowedImportModules"]
    allowed_modules,  \* self._allowed_modules: name -> handle or None
    result,           \* self._script_locals["result"]
    custom_print,     \* self._custom_print: [enabled, lines]
    log_alias,        \* result["log"] is the list object custom_print.lines
    state,            \* driver state: Idle, Running, Completed, Failed, Raised
    ret,              \* the pair run_query returned last, or None
    load_calls,       \* name -> number of importlib.import_module calls
    \* history, not program state
    run,              \* number of run_query calls started
    calls,            \* number of script calls made so far
    own,              \* columns and rows the current script added
    owners,           \* for each column / row / line: the run that added it
    failed_runs,      \* runs that ended Failed
    write_log,        \* every write call: [run, text, enabled, ts]
    last_toggle,      \* the last enable / disable call: TRUE, FALSE
    last_import,      \* the last custom_import call and its outcome
    last_column,      \* the last add_result_column call
    last_frame,       \* the last dataframe_to_result call
    cause,            \* where the last execution failed
    \* two executions running concurrently on the instance (SpecConc)
    thr,              \* thread -> [pc, name, m, got, left]
    \* calls of the static helpers, outside an execution
    qcall,            \* the last execute_by_query_id call (SpecQueryById)
    ip,               \* the last custom_inplacevar call (SpecInplace)
    \* the process with two Python instances (SpecTwo)
    proc              \* [safe_builtins, sys_path, inst, actor]

vars == <<configuration, allowed_modules, result, custom_print, log_alias, state, ret,
          load_calls, run, calls, own, owners, failed_runs, write_log,
          last_toggle, last_import, last_column, last_frame,
          cause, thr, qcall, ip, proc>>

\* the variables the executions on the one instance leave alone
auxvars == <<thr, qcall, ip, proc>>

\* --------------------------------------------------------------- helpers
RECURSIVE SplitFrom(_, _)
SplitFrom(s, cur) ==
    IF s = << >> THEN <<cur>>
    ELSE IF Head(s) = "," THEN <<cur>> \o SplitFrom(Tail(s), << >>)
    ELSE SplitFrom(Tail(s), Append(cur, Head(s)))

\* str.split(","): the pieces between the separators
Split(s) == SplitFrom(s, << >>)

SeqToSet(s) == {s[i] : i \in DOMAIN s}

RECURSIVE LStrip(_)
LStrip(t) ==
    IF t # << >> /\ Head(t) \in Whitespace THEN LStrip(Tail(t)) ELSE t

RECURSIVE RStrip(_)
RStrip(t) ==
    IF t # << >> /\ t[Len(t)] \in Whitespace
    THEN RStrip(SubSeq(t, 1, Len(t) - 1)) ELSE t

\* str.strip()
Strip(t) == RStrip(LStrip(t))

\* truth value of a Python string
Truthy(t) == t # << >>

\* "[{0}] {1}".format(ts, text)
FormatLogLine(ts, text) == <<"[", ts, "] ">> \o text

\* str(type(e)) + " " + str(e)
ErrorString(e) == <<"<class '", e.kind, "'>", " ">> \o e.msg

\* the message without the module name
ImportErrorMessageNoName(name) ==
    <<"module is not configured as a supported import module">>

\* "'{0}' is not configured as a supported import module".format(name)
ImportErrorMessage(name) ==
    <<"'">> \o name \o <<"' is not configured as a supported import module">>

\* "'{0}' is not a supported column type".format(column_type)
ColumnErrorMessage(column_type) ==
    <<"'", column_type, "' is not a supported column type">>

\* ---------------------------------------------------------- CustomPrint
\* CustomPrint.__init__
CustomPrintInit == [enabled |-> TRUE, lines |-> << >>]

\* write without the test of self.enabled
write_ignoring_enabled(cp, text, ts) ==
    IF Truthy(text) /\ Truthy(Strip(text))
    THEN [cp EXCEPT !.lines = Append(@, FormatLogLine(ts, text))]
    ELSE cp

\* CustomPrint.write
write(cp, text, ts) ==
    IF cp.enabled
    THEN IF Truthy(text) /\ Truthy(Strip(text))
         THEN [cp EXCEPT !.lines = Append(@, FormatLogLine(ts, text))]
         ELSE cp
    ELSE cp

\* CustomPrint.enable
enable(cp) == [cp EXCEPT !.enabled = TRUE]

\* CustomPrint.disable
disable(cp) == [cp EXCEPT !.enabled = FALSE]

\* --------------------------------------------------------------- Python
\* dict item assignment d[k] = v
SetItem(d, k, v) == [x \in DOMAIN d \cup {k} |-> IF x = k THEN v ELSE d[x]]

\* the exception object raise Exception(msg) builds
Exc(kind, msg) == [kind |-> kind, msg |-> msg]

\* outcome of a call: a value, or an exception leaving the call
Return(v) == [raised |-> FALSE, value |-> v]
Raise(e) == [raised |-> TRUE, e |-> e]

\* importlib.import_module(name) when it succeeds: the module object of
\* the serial-th load of name
import_module(name, serial) == <<name, serial>>

\* custom_import without the test of the cached handle
custom_import_always_loads(cache, name, serial, load_ok) ==
    IF name \in DOMAIN cache
    THEN IF load_ok
         THEN [out |-> Return(import_module(name, serial)),
               cache |-> [cache EXCEPT ![name] = import_module(name, serial)],
               loads |-> 1]
         ELSE [out |-> Raise(Exc("ModuleNotFoundError",
                                 <<"No module named '">> \o name \o <<"'">>)),
               cache |-> cache, loads |-> 1]
    ELSE [out |-> Raise(Exc("Exception", ImportErrorMessage(name))),
          cache |-> cache, loads |-> 0]

\* Python.custom_import; load_ok is whether importlib.import_module finds
\* the module.  out is the value returned or the exception raised, cache
\* the dict after the call, loads the number of import_module calls made.
custom_import(cache, name, serial, load_ok) ==
    IF name \in DOMAIN cache
    THEN IF cache[name] = None
         THEN IF load_ok
              THEN [out |-> Return(import_module(name, serial)),
                    cache |-> [cache EXCEPT ![name] =
                                  import_module(name, serial)],
                    loads |-> 1]
              ELSE [out |-> Raise(Exc("ModuleNotFoundError",
                                      <<"No module named '">> \o name
                                      \o <<"'">>)),
                    cache |-> cache, loads |-> 1]
         ELSE [out |-> Return(cache[name]), cache |-> cache, loads |-> 0]
    ELSE [out |-> Raise(Exc("Exception", ImportErrorMessage(name))),
          cache |-> cache, loads |-> 0]

\* add_result_column without the test of column_type
add_result_column_unchecked(res, column_name, friendly_name, column_type) ==
    LET r == IF "columns" \notin DOMAIN res
             THEN SetItem(res, "columns", << >>) ELSE res
    IN  Return([r EXCEPT !.columns =
                   Append(@, [name |-> column_name,
                              friendly_name |-> friendly_name,
                              type |-> column_type])])

\* Python.add_result_column
add_result_column(res, column_name, friendly_name, column_type) ==
    IF column_type \notin SUPPORTED_COLUMN_TYPES
    THEN Raise(Exc("Exception", ColumnErrorMessage(column_type)))
    ELSE LET r == IF "columns" \notin DOMAIN res
                  THEN SetItem(res, "columns", << >>) ELSE res
         IN  Return([r EXCEPT !.columns =
                        Append(@, [name |-> column_name,
                                   friendly_name |-> friendly_name,
                                   type |-> column_type])])

\* Python.add_result_row
add_result_row(res, values) ==
    LET r == IF "rows" \notin DOMAIN res
             THEN SetItem(res, "rows", << >>) ELSE res
    IN  Return([r EXCEPT !.rows = Append(@, values)])

\* redash.utils.json_dumps: the serialized text of a dict, or a TypeError
\* when a value has no JSON encoding
json_dumps(res) ==
    IF "rows" \in DOMAIN res
       /\ \E i \in DOMAIN res.rows :
             \E k \in DOMAIN res.rows[i] : res.rows[i][k] = Obj
    THEN Raise(Exc("TypeError", <<"Object of type object is not JSON serializable">>))
    ELSE Return(<<"json", res>>)

\* RestrictedPython.compile_restricted: a rejected script raises SyntaxError
compile_restricted(accepted) ==
    IF accepted THEN Return(<<"code">>)
    ELSE Raise(Exc("SyntaxError", <<"restricted construct">>))

\* "except Exception as e": the classes the clause catches
CaughtByExceptException(e) == e.kind # "BaseException"

\* an except clause that leaves error unset
ExceptClauseNoError(e) == <<None, None>>

\* the except clause of run_query: the pair it makes run_query return
ExceptClause(e) == <<None, ErrorString(e)>>

\* the success path of run_query after exec: result["log"] = lines, then
\* json_dumps(result)
Finalize(res, cp) == json_dumps(SetItem(res, "log", cp.lines))

\* ------------------------------------------------------ dataframe_to_result
\* df.empty: an axis of length 0
FrameEmpty(df) == df.data = << >> \/ df.columns = << >>

\* df.to_dict("records")
ToDictRecords(df) == df.data

\* df[column_name].head(1).astype(str).loc[0]: the first row rendered as a
\* string, looked up by the index label 0
FirstAsStrLoc0(df, column_name) ==
    IF df.index[1] = 0
    THEN Return(AsStr(df.data[1][column_name]))
    ELSE Raise(Exc("KeyError", <<"0">>))

\* lines 317-331: the redash type of a column of dtype column_type
RedashType(df, column_name, column_type) ==
    IF column_type = "bool" THEN Return(TYPE_BOOLEAN)
    ELSE IF column_type = "float64" THEN Return(TYPE_FLOAT)
    ELSE IF column_type = "int64" THEN Return(TYPE_INTEGER)
    ELSE IF column_type = "datetime64[ns]"
    THEN IF FrameEmpty(df) THEN Return(TYPE_DATETIME)
         ELSE LET s == FirstAsStrLoc0(df, column_name) IN
              IF s.raised THEN s
              ELSE IF Len(s.value) > 10 THEN Return(TYPE_DATETIME)
              ELSE Return(TYPE_DATE)
    ELSE Return(TYPE_STRING)

RECURSIVE AddFrameColumns(_, _, _)
\* the loop of lines 316-333 from column k on; an exception leaves the
\* loop with the columns added so far
AddFrameColumns(res, df, k) ==
    IF k > Len(df.columns) THEN [out |-> Return(None), result |-> res]
    ELSE LET c == df.columns[k]
             t == RedashType(df, c.name, c.dtype)
         IN  IF t.raised THEN [out |-> t, result |-> res]
             ELSE LET a == add_result_column(res, c.name, c.name, t.value)
                  IN  IF a.raised THEN [out |-> a, result |-> res]
                      ELSE AddFrameColumns(a.value, df, k + 1)

\* Python.dataframe_to_result: out is None or the exception raised, result
\* the dict as the call leaves it
dataframe_to_result(res, df) ==
    AddFrameColumns(SetItem(res, "rows", ToDictRecords(df)), df, 1)

\* ------------------------------------------------------------ the state
\* the class attribute Python.safe_builtins
safe_builtins ==
    <<
       <<"abs">>, <<"all">>, <<"any">>, <<"bool">>, <<"complex">>,
       <<"dict">>, <<"divmod">>, <<"enumerate">>, <<"filter">>, <<"float">>,
       <<"int">>, <<"len">>, <<"list">>, <<"map">>, <<"max">>,
       <<"min">>, <<"next">>, <<"reversed">>, <<"round">>, <<"set">>,
       <<"slice">>, <<"sorted">>, <<"str">>, <<"sum">>, <<"tuple">>
    >>

\* the two Python instances of SpecTwo
Instances == {"A", "B"}

\* the process before any Python instance is constructed: the class
\* attribute, sys.path, no instance; actor is the instance that acted last
ProcInit ==
    [safe_builtins |-> safe_builtins,
     sys_path |-> << <<"/usr/lib/python3">> >>,
     inst |-> [i \in Instances |-> None],
     actor |-> "none"]

progvars == <<configuration, allowed_modules, result, custom_print, log_alias>>

EmptyOwn == [columns |-> << >>, rows |-> << >>]

\* Python.__init__, for the configuration's allowedImportModules
PythonInit(allowedImportModules) ==
    /\ configuration = allowedImportModules
    /\ allowed_modules =
          IF Truthy(allowedImportModules)
          THEN [item \in SeqToSet(Split(allowedImportModules)) |-> None]
          ELSE << >>
    /\ result = [rows |-> << >>, columns |-> << >>, log |-> << >>]
    /\ custom_print = CustomPrintInit
    /\ log_alias = FALSE

Init ==
    /\ \E c \in Configurations : PythonInit(c)
    /\ state = "Idle"
    /\ ret = None
    /\ load_calls = [n \in ModuleNames |-> 0]
    /\ run = 0
    /\ calls = 0
    /\ own = EmptyOwn
    /\ owners = [columns |-> << >>, rows |-> << >>, lines |-> << >>]
    /\ failed_runs = {}
    /\ write_log = << >>
    /\ last_toggle = TRUE
    /\ last_import = None
    /\ last_column = None
    /\ last_frame = None
    /\ cause = "none"
    /\ thr = [t \in Threads |->
                [pc |-> "idle", name |-> None, m |-> None, got |-> << >>,
                 left |-> MaxImports]]
    /\ qcall = None
    /\ ip = None
    /\ proc = ProcInit

\* an exception e leaves the try block of execution r, at place where
Fail(e, r, where) ==
    /\ IF CaughtByExceptException(e)
       THEN /\ ret' = ExceptClause(e)
            /\ state' = "Failed"
            /\ failed_runs' = failed_runs \cup {r}
       ELSE /\ ret' = None
            /\ state' = "Raised"
            /\ failed_runs' = failed_runs
    /\ cause' = where

Running == state = "Running"

\* run_query that installs a new CustomPrint before it compiles
RunQueryCompileFailAfterSetup ==
    /\ ~Running
    /\ UNCHANGED <<auxvars, last_frame>>
    /\ run + calls < MaxOps
    /\ run' = run + 1
    /\ own' = EmptyOwn
    /\ custom_print' = CustomPrintInit
    /\ LET c == compile_restricted(FALSE) IN
         /\ c.raised
         /\ Fail(c.e, run + 1, "compile")
    /\ UNCHANGED <<configuration, allowed_modules, result, log_alias,
                   load_calls, calls, owners, write_log, last_toggle,
                   last_import, last_column>>

\* run_query on a script compile_restricted rejects
RunQueryCompileFail ==
    /\ ~Running
    /\ UNCHANGED <<auxvars, last_frame>>
    /\ run + calls < MaxOps
    /\ run' = run + 1
    /\ own' = EmptyOwn
    /\ LET c == compile_restricted(FALSE) IN
         /\ c.raised
         /\ Fail(c.e, run + 1, "compile")
    /\ UNCHANGED <<progvars, load_calls, calls, owners, write_log,
                   last_toggle, last_import, last_column>>

\* run_query up to exec: the script compiles and the namespace is built
RunQueryBegin ==
    /\ ~Running
    /\ UNCHANGED <<auxvars, last_frame>>
    /\ run + calls < MaxOps
    /\ run' = run + 1
    /\ own' = EmptyOwn
    /\ ~compile_restricted(TRUE).raised
    /\ state' = "Running"
    /\ ret' = None
    /\ cause' = "none"
    /\ UNCHANGED <<progvars, load_calls, calls, owners, failed_runs,
                   write_log, last_toggle, last_import, last_column>>

\* the script prints: _print_ is the CustomPrint, print writes to it
ScriptPrint ==
    /\ Running
    /\ UNCHANGED <<auxvars, last_frame>>
    /\ run + calls < MaxOps
    /\ \E text \in Texts, ts \in Times :
         LET cp == write(custom_print, text, ts) IN
         /\ custom_print' = cp
         /\ result' = IF log_alias THEN SetItem(result, "log", cp.lines)
                      ELSE result
         /\ owners' = IF Len(cp.lines) > Len(custom_print.lines)
                      THEN [owners EXCEPT !.lines = Append(@, run)]
                      ELSE owners
         /\ write_log' = Append(write_log,
                                [run |-> run, text |-> text, ts |-> ts,
                                 enabled |-> last_toggle])
    /\ calls' = calls + 1
    /\ UNCHANGED <<configuration, allowed_modules, log_alias, state, ret,
                   load_calls, run, own, failed_runs, last_toggle,
                   last_import, last_column, cause>>

\* the script calls enable_print_log()
ScriptEnable ==
    /\ Running
    /\ UNCHANGED <<auxvars, last_frame>>
    /\ custom_print' = enable(custom_print)
    /\ last_toggle' = TRUE
    /\ UNCHANGED <<configuration, allowed_modules, result, log_alias, state,
                   ret, load_calls, run, calls, own, owners, failed_runs,
                   write_log, last_import, last_column, cause>>

\* the script calls disable_print_log()
ScriptDisable ==
    /\ Running
    /\ UNCHANGED <<auxvars, last_frame>>
    /\ custom_print' = disable(custom_print)
    /\ last_toggle' = FALSE
    /\ UNCHANGED <<configuration, allowed_modules, result, log_alias, state,
                   ret, load_calls, run, calls, own, owners, failed_runs,
                   write_log, last_import, last_column, cause>>

\* the script calls add_result_column(result, name, friendly_name, type)
ScriptAddColumn ==
    /\ Running
    /\ UNCHANGED <<auxvars, last_frame>>
    /\ run + calls < MaxOps
    /\ calls' = calls + 1
    /\ \E n \in ColumnNames, f \in FriendlyNames, t \in ColumnTypeArgs :
         LET r == add_result_column(result, n, f, t) IN
         /\ last_column' = <<[name |-> n, friendly_name |-> f, type |-> t,
                              seq |-> calls + 1]>>
         /\ IF r.raised
            THEN /\ Fail(r.e, run, "add_result_column")
                 /\ UNCHANGED <<result, own, owners>>
            ELSE /\ result' = r.value
                 /\ own' = [own EXCEPT !.columns =
                               Append(@, [name |-> n, friendly_name |-> f,
                                          type |-> t])]
                 /\ owners' = [owners EXCEPT !.columns = Append(@, run)]
                 /\ UNCHANGED <<state, ret, failed_runs, cause>>
    /\ UNCHANGED <<configuration, allowed_modules, custom_print, log_alias,
                   load_calls, run, write_log, last_toggle, last_import>>

\* the script calls add_result_row(result, {"x": v})
ScriptAddRow ==
    /\ Running
    /\ UNCHANGED <<auxvars, last_frame>>
    /\ run + calls < MaxOps
    /\ calls' = calls + 1
    /\ \E v \in RowValues :
         LET r == add_result_row(result, [x |-> v]) IN
         /\ result' = r.value
         /\ own' = [own EXCEPT !.rows = Append(@, [x |-> v])]
         /\ owners' = [owners EXCEPT !.rows = Append(@, run)]
    /\ UNCHANGED <<configuration, allowed_modules, custom_print, log_alias,
                   state, ret, load_calls, run, failed_runs, write_log,
                   last_toggle, last_import, last_column, cause>>

\* the script executes "import name": __import__ is custom_import
ScriptImport ==
    /\ Running
    /\ UNCHANGED <<auxvars, last_frame>>
    /\ run + calls < MaxOps
    /\ calls' = calls + 1
    /\ \E name \in ModuleNames, load_ok \in BOOLEAN :
         LET r == custom_import(allowed_modules, name,
                                load_calls[name] + 1, load_ok) IN
         /\ allowed_modules' = r.cache
         /\ load_calls' = [load_calls EXCEPT ![name] = @ + r.loads]
         /\ last_import' = <<[name |-> name, out |-> r.out, run |-> run,
                              before |-> allowed_modules,
                              seq |-> calls + 1]>>
         /\ IF r.out.raised
            THEN Fail(r.out.e, run, "custom_import")
            ELSE UNCHANGED <<state, ret, failed_runs, cause>>
    /\ UNCHANGED <<configuration, result, custom_print, log_alias, run, own,
                   owners, write_log, last_toggle, last_column>>

\* the script calls dataframe_to_result(result, df)
ScriptIngestFrame ==
    /\ Running
    /\ UNCHANGED auxvars
    /\ run + calls < MaxOps
    /\ calls' = calls + 1
    /\ \E df \in Frames :
         LET r == dataframe_to_result(result, df)
             added == SubSeq(r.result.columns, Len(result.columns) + 1,
                             Len(r.result.columns))
         IN
         /\ result' = r.result
         /\ last_frame' = <<[df |-> df, before |-> result,
                             seq |-> calls + 1]>>
         /\ own' = [columns |-> own.columns \o added,
                    rows |-> own.rows \o df.data]
         /\ owners' = [owners EXCEPT
                          !.columns = @ \o [i \in 1..Len(added) |-> run],
                          !.rows = [i \in 1..Len(r.result.rows) |-> run]]
         /\ IF r.out.raised
            THEN Fail(r.out.e, run, "dataframe_to_result")
            ELSE UNCHANGED <<state, ret, failed_runs, cause>>
    /\ UNCHANGED <<configuration, allowed_modules, custom_print, log_alias,
                   load_calls, run, write_log, last_toggle, last_import,
                   last_column>>

\* the script body raises an exception of its own
ScriptRaise ==
    /\ Running
    /\ UNCHANGED <<auxvars, last_frame>>
    /\ \E kind \in ExceptionKinds :
         Fail(Exc(kind, <<"boom">>), run, "script")
    /\ UNCHANGED <<progvars, load_calls, run, calls, own, owners, write_log,
                   last_toggle, last_import, last_column>>

\* the script body ends: run_query sets result["log"] and serializes
RunQueryFinish ==
    /\ Running
    /\ UNCHANGED <<auxvars, last_frame>>
    /\ result' = SetItem(result, "log", custom_print.lines)
    /\ log_alias' = TRUE
    /\ LET j == Finalize(result, custom_print) IN
         IF j.raised
         THEN Fail(j.e, run, "json_dumps")
         ELSE /\ ret' = <<j.value, None>>
              /\ state' = "Completed"
              /\ cause' = "none"
              /\ UNCHANGED failed_runs
    /\ UNCHANGED <<configuration, allowed_modules, custom_print, load_calls,
                   run, calls, own, owners, write_log, last_toggle,
                   last_import, last_column>>

Next ==
    \/ RunQueryCompileFail
    \/ RunQueryBegin
    \/ ScriptPrint
    \/ ScriptEnable
    \/ ScriptDisable
    \/ ScriptAddColumn
    \/ ScriptAddRow
    \/ ScriptImport
    \/ ScriptIngestFrame
    \/ ScriptRaise
    \/ RunQueryFinish

Spec == Init /\ [][Next]_vars


\* ------------------------------------ scripts using getattr (SpecGetattr)
\* run_query installs the unguarded getattr as the script's getattr and
\* _getattr_, and custom_write hands back any object for item assignment.
\* The script statement
\*     getattr(getattr(get_current_user, "__self__"), "_allowed_modules")[name] = None
\* reaches the instance through a bound method of its namespace and stores
\* a key in the instance's _allowed_modules.
ScriptSetAllowedModule ==
    /\ Running
    /\ UNCHANGED <<auxvars, last_frame>>
    /\ run + calls < MaxOps
    /\ calls' = calls + 1
    /\ \E name \in ModuleNames :
         allowed_modules' = SetItem(allowed_modules, name, None)
    /\ UNCHANGED <<configuration, result, custom_print, log_alias, state, ret,
                   load_calls, run, own, owners, failed_runs, write_log,
                   last_toggle, last_import, last_column, cause>>

NextGetattr ==
    \/ Next
    \/ ScriptSetAllowedModule

SpecGetattr == Init /\ [][NextGetattr]_vars

\* ---------------------------------------- concurrent executions (SpecConc)
\* Two threads call run_query on the same instance; custom_import runs
\* bytecode by bytecode, so a thread switch can fall between its lines.
seqvars == <<configuration, result, custom_print, log_alias, state, ret,
             run, calls, own, owners, failed_runs, write_log, last_toggle,
             last_import, last_column, last_frame, cause, qcall, ip, proc>>

\* run_query of thread t reaches exec
ConcRunQueryBegin(t) ==
    /\ thr[t].pc = "idle"
    /\ thr' = [thr EXCEPT ![t].pc = "script"]
    /\ UNCHANGED <<seqvars, allowed_modules, load_calls>>

\* the script of thread t executes "import name": custom_import is entered
ConcImportCall(t) ==
    /\ thr[t].pc = "script"
    /\ thr[t].left > 0
    /\ \E name \in ModuleNames :
         thr' = [thr EXCEPT ![t].pc = "check", ![t].name = name,
                            ![t].m = None, ![t].left = @ - 1]
    /\ UNCHANGED <<seqvars, allowed_modules, load_calls>>

\* custom_import lines 151-153: the membership test and the None test
ConcImportCheck(t) ==
    /\ thr[t].pc = "check"
    /\ thr' = [thr EXCEPT ![t].pc =
                  IF thr[t].name \in DOMAIN allowed_modules
                  THEN IF allowed_modules[thr[t].name] = None
                       THEN "load" ELSE "read"
                  ELSE "failed"]
    /\ UNCHANGED <<seqvars, allowed_modules, load_calls>>

\* custom_import line 154: m = importlib.import_module(name)
ConcImportLoad(t) ==
    /\ thr[t].pc = "load"
    /\ load_calls' = [load_calls EXCEPT ![thr[t].name] = @ + 1]
    /\ \E load_ok \in BOOLEAN :
         thr' = IF load_ok
                THEN [thr EXCEPT ![t].pc = "store",
                                 ![t].m = import_module(thr[t].name,
                                             load_calls[thr[t].name] + 1)]
                ELSE [thr EXCEPT ![t].pc = "failed"]
    /\ UNCHANGED <<seqvars, allowed_modules>>

\* custom_import line 155: self._allowed_modules[name] = m
ConcImportStore(t) ==
    /\ thr[t].pc = "store"
    /\ allowed_modules' = [allowed_modules EXCEPT ![thr[t].name] = thr[t].m]
    /\ thr' = [thr EXCEPT ![t].pc = "return"]
    /\ UNCHANGED <<seqvars, load_calls>>

\* custom_import line 157: m = self._allowed_modules[name]
ConcImportRead(t) ==
    /\ thr[t].pc = "read"
    /\ thr' = [thr EXCEPT ![t].pc = "return",
                          ![t].m = allowed_modules[thr[t].name]]
    /\ UNCHANGED <<seqvars, allowed_modules, load_calls>>

\* custom_import line 159: return m; the script goes on
ConcImportReturn(t) ==
    /\ thr[t].pc = "return"
    /\ thr' = [thr EXCEPT ![t].pc = "script",
                          ![t].got = Append(@, thr[t].m)]
    /\ UNCHANGED <<seqvars, allowed_modules, load_calls>>

\* the script of thread t ends and run_query returns
ConcRunQueryFinish(t) ==
    /\ thr[t].pc = "script"
    /\ thr' = [thr EXCEPT ![t].pc = "done"]
    /\ UNCHANGED <<seqvars, allowed_modules, load_calls>>

NextConc ==
    \E t \in Threads :
        \/ ConcRunQueryBegin(t)
        \/ ConcImportCall(t)
        \/ ConcImportCheck(t)
        \/ ConcImportLoad(t)
        \/ ConcImportStore(t)
        \/ ConcImportRead(t)
        \/ ConcImportReturn(t)
        \/ ConcRunQueryFinish(t)

SpecConc == Init /\ [][NextConc]_vars


\* ----------------------------------- execute_by_query_id (SpecQueryById)
\* everything but qcall
mainvars == <<configuration, allowed_modules, result, custom_print, log_alias,
              state, ret, load_calls, run, calls, own, owners, failed_runs,
              write_log, last_toggle, last_import, last_column, last_frame,
              cause, thr>>

\* nodes of a pystache parse tree
TextNode(s) == [kind |-> "text", key |-> s, parsed |-> << >>]
EscapeNode(k) == [kind |-> "_EscapeNode", key |-> k, parsed |-> << >>]
LiteralNode(k) == [kind |-> "_LiteralNode", key |-> k, parsed |-> << >>]
SectionNode(k, parsed) == [kind |-> "_SectionNode", key |-> k, parsed |-> parsed]

ParamKeys == {"a", "b"}

\* models.Query.get_by_id: the stored query text as pystache parses it, or
\* None when no query has the id
StoredQueries ==
    { None,
      <<TextNode("select 1")>>,
      <<TextNode("select "), EscapeNode("a")>>,
      <<EscapeNode("a"), EscapeNode("b"), EscapeNode("a")>>,
      <<SectionNode("a", <<EscapeNode("b")>>)>>,
      <<SectionNode("b", <<SectionNode("a", << >>)>>)>>,
      <<LiteralNode("b"), EscapeNode("a")>> }

\* the params argument: None, or a dict (wrapped, so {} differs from None)
ParamDicts == {<<[k \in K |-> "1"]>> : K \in SUBSET ParamKeys}
Params == {None} \cup ParamDicts

\* what the data source's run_query returns
DataSourceReturns == { <<<<"rows">>, None>>, <<None, <<"boom">>>> }

\* iteration orders of a set of names
SetOrders == { <<"a", "b">>, <<"b", "a">> }

RECURSIVE distinct(_)
\* funcy.distinct: first occurrences, in order
distinct(s) ==
    IF s = << >> THEN << >>
    ELSE LET d == distinct(SubSeq(s, 1, Len(s) - 1))
         IN  IF s[Len(s)] \in SeqToSet(d) THEN d ELSE Append(d, s[Len(s)])

RECURSIVE CollectKeys(_)
\* the loop of _collect_key_names
CollectKeys(nodes) ==
    IF nodes = << >> THEN << >>
    ELSE LET node == Head(nodes)
             keys == IF node.kind = "_EscapeNode" THEN <<node.key>>
                     ELSE IF node.kind = "_SectionNode"
                     THEN <<node.key>> \o distinct(CollectKeys(node.parsed))
                     ELSE << >>
         IN  keys \o CollectKeys(Tail(nodes))

_collect_key_names(nodes) == distinct(CollectKeys(nodes))

_collect_query_parameters(query) == _collect_key_names(query)

RECURSIVE mustache_render(_, _)
\* redash.utils.mustache_render: the text with every tag replaced; a key
\* the context lacks renders as nothing
mustache_render(nodes, d) ==
    IF nodes = << >> THEN << >>
    ELSE LET node == Head(nodes)
             here == IF node.kind = "text" THEN <<node.key>>
                     ELSE IF node.kind = "_SectionNode"
                     THEN IF node.key \in DOMAIN d
                          THEN mustache_render(node.parsed, d) ELSE << >>
                     ELSE IF node.key \in DOMAIN d
                     THEN <<d[node.key]>> ELSE << >>
         IN  here \o mustache_render(Tail(nodes), d)

RECURSIVE Join(_, _)
\* sep.join(names)
Join(names, sep) ==
    IF names = << >> THEN << >>
    ELSE IF Len(names) = 1 THEN names
    ELSE <<names[1], sep>> \o Join(Tail(names), sep)

\* get_query
get_query(query) ==
    IF query = None
    THEN Raise(Exc("Exception", <<"Query id ", "does not exist.">>))
    ELSE Return(query)

\* execute_by_query_id with the parameter check after the delegation
execute_by_query_id_delegate_first(query, params, ds, order) ==
    LET q == get_query(query) IN
    IF q.raised THEN [out |-> q, trace |-> << >>]
    ELSE
    LET query_params == SeqToSet(_collect_query_parameters(q.value))
        query_text == IF params = None THEN q.value
                      ELSE mustache_render(q.value, params[1])
        missing_params == IF params = None THEN query_params
                          ELSE query_params \ DOMAIN params[1]
        listed == SelectSeq(order, LAMBDA k : k \in missing_params)
        invoked == << <<"run_query", query_text, None>> >>
    IN  IF ds[2] # None
        THEN [out |-> Raise(Exc("Exception", ds[2])), trace |-> invoked]
        ELSE IF missing_params # {}
        THEN [out |-> Raise(Exc("Exception",
                                <<"Missing parameter value for: ">>
                                    \o Join(listed, ", "))),
              trace |-> invoked]
        ELSE [out |-> Return(<<"json_loads", ds[1]>>), trace |-> invoked]

\* Python.execute_by_query_id: out is what the call returns or raises, trace
\* the invocations of the data source's run_query it made; order is the
\* order in which the set of missing names is iterated
execute_by_query_id(query, params, ds, order) ==
    LET q == get_query(query) IN
    IF q.raised THEN [out |-> q, trace |-> << >>]
    ELSE
    LET query_params == SeqToSet(_collect_query_parameters(q.value))
        query_text == IF params = None THEN q.value
                      ELSE mustache_render(q.value, params[1])
        missing_params == IF params = None THEN query_params
                          ELSE query_params \ DOMAIN params[1]
        listed == SelectSeq(order, LAMBDA k : k \in missing_params)
        invoked == << <<"run_query", query_text, None>> >>
    IN  IF missing_params # {}
        THEN [out |-> Raise(Exc("Exception",
                                <<"Missing parameter value for: ">>
                                    \o Join(listed, ", "))),
              trace |-> << >>]
        ELSE IF ds[2] # None
        THEN [out |-> Raise(Exc("Exception", ds[2])), trace |-> invoked]
        ELSE [out |-> Return(<<"json_loads", ds[1]>>), trace |-> invoked]

\* one call of execute_by_query_id
ExecuteByQueryId ==
    /\ \E query \in StoredQueries, params \in Params,
          ds \in DataSourceReturns, order \in SetOrders :
         LET r == execute_by_query_id(query, params, ds, order)
         IN  qcall' = <<[query |-> query, params |-> params, ds |-> ds,
                         out |-> r.out, trace |-> r.trace]>>
    /\ UNCHANGED <<mainvars, ip, proc>>

NextQueryById == ExecuteByQueryId

SpecQueryById == Init /\ [][NextQueryById]_vars


\* --------------------------------------- custom_inplacevar (SpecInplace)
\* RestrictedPython.transformer.IOPERATOR_TO_STR
IOPERATOR_TO_STR ==
    [Add |-> "+=", Sub |-> "-=", Mult |-> "*=", Div |-> "/=", Mod |-> "%=",
     Pow |-> "**=", LShift |-> "<<=", RShift |-> ">>=", BitOr |-> "|=",
     BitXor |-> "^=", BitAnd |-> "&=", FloorDiv |-> "//=", MatMult |-> "@="]

\* dict.values()
Values(d) == {d[k] : k \in DOMAIN d}

\* the op arguments of the calls: in-place tokens, and "=", "+", "==" and
\* "<>", which are not
OpArgs == {"+=", "-=", "*=", "//=", "%=", "**=", "<<=", "@=",
           "=", "+", "==", "<>"}

\* the x and y arguments of the calls
Operands == 0..MaxOperand

\* int.__pow__ for non-negative operands
RECURSIVE Power(_, _)
Power(x, y) == IF y = 0 THEN 1 ELSE x * Power(x, y - 1)

\* exec("x" + op + "y", glb) for integers x and y: glb["x"] afterwards, or
\* the exception the statement raises
ExecStatement(op, x, y) ==
    CASE op = "+=" -> Return(x + y)
      [] op = "-=" -> Return(x - y)
      [] op = "*=" -> Return(x * y)
      [] op = "//=" -> IF y = 0
                       THEN Raise(Exc("ZeroDivisionError",
                                      <<"integer division or modulo by zero">>))
                       ELSE Return(x \div y)
      [] op = "%=" -> IF y = 0
                      THEN Raise(Exc("ZeroDivisionError",
                                     <<"integer division or modulo by zero">>))
                      ELSE Return(x % y)
      [] op = "**=" -> Return(Power(x, y))
      [] op = "<<=" -> Return(x * Power(2, y))
      [] op = "@=" -> Raise(Exc("TypeError",
                                <<"unsupported operand type(s) for @=">>))
      [] op = "=" -> Return(y)
      [] op \in {"+", "=="} -> Return(x)
      [] OTHER -> Raise(Exc("SyntaxError", <<"invalid syntax">>))

\* custom_inplacevar without the test of op
custom_inplacevar_unmediated(op, x, y) ==
    [out |-> ExecStatement(op, x, y),
     executed |-> << <<"x", op, "y">> >>]

\* Python.custom_inplacevar: out is what the call returns or raises,
\* executed the statements it handed to exec
custom_inplacevar(op, x, y) ==
    IF op \notin Values(IOPERATOR_TO_STR)
    THEN [out |-> Raise(Exc("Exception",
                            <<"'", op, " is not supported inplace variable'">>)),
          executed |-> << >>]
    ELSE [out |-> ExecStatement(op, x, y),
          executed |-> << <<"x", op, "y">> >>]

\* the script runs an augmented assignment: one call of _inplacevar_
CallInplacevar ==
    /\ \E op \in OpArgs, x \in Operands, y \in Operands :
         LET r == custom_inplacevar(op, x, y)
         IN  ip' = <<[op |-> op, x |-> x, y |-> y, out |-> r.out,
                      executed |-> r.executed]>>
    /\ UNCHANGED <<mainvars, qcall, proc>>

NextInplace == CallInplacevar

SpecInplace == Init /\ [][NextInplace]_vars


\* ------------------------------------- two instances, one process (SpecTwo)
\* the configurations the instances are constructed with
TwoConfigurations ==
    [allowedImportModules : {<< >>, <<"json">>, <<"json", ",", "math">>},
     additionalModulesPaths : {<< >>, <<"/opt/lib">>},
     additionalBuiltins : {<< >>, <<"len", ",", "eval">>}]

\* self.safe_builtins as instance i reads it: its own attribute when it has
\* one, the class attribute otherwise
VisibleBuiltins(p, i) ==
    IF p.inst[i][1].safe_builtins = None THEN p.safe_builtins
    ELSE p.inst[i][1].safe_builtins[1]

RECURSIVE AppendPaths(_, _)
\* lines 140-143: every path not yet in sys.path is appended to it
AppendPaths(sys_path, paths) ==
    IF paths = << >> THEN sys_path
    ELSE AppendPaths(IF Head(paths) \in SeqToSet(sys_path) THEN sys_path
                     ELSE Append(sys_path, Head(paths)),
                     Tail(paths))

RECURSIVE AddBuiltins(_, _, _)
\* lines 145-148: self.safe_builtins += (b, ) binds a new tuple to the
\* instance; own is the instance attribute so far, None while it has none
AddBuiltins(class_builtins, own_builtins, names) ==
    IF names = << >> THEN own_builtins
    ELSE LET seenb == IF own_builtins = None THEN class_builtins
                      ELSE own_builtins[1]
         IN  AddBuiltins(class_builtins,
                         IF Head(names) \in SeqToSet(seenb) THEN own_builtins
                         ELSE <<Append(seenb, Head(names))>>,
                         Tail(names))

\* Python.__init__ in process p: the new instance and sys.path afterwards
PythonNew(p, c) ==
    [inst |-> [allowed_modules |->
                   IF Truthy(c.allowedImportModules)
                   THEN [n \in SeqToSet(Split(c.allowedImportModules)) |-> None]
                   ELSE << >>,
               safe_builtins |->
                   IF Truthy(c.additionalBuiltins)
                   THEN AddBuiltins(p.safe_builtins, None,
                                    Split(c.additionalBuiltins))
                   ELSE None,
               seen |-> None],
     sys_path |-> IF Truthy(c.additionalModulesPaths)
                  THEN AppendPaths(p.sys_path, Split(c.additionalModulesPaths))
                  ELSE p.sys_path]

\* instance i is constructed
Construct(i) ==
    /\ proc.inst[i] = None
    /\ \E c \in TwoConfigurations :
         LET r == PythonNew(proc, c)
         IN  proc' = [proc EXCEPT !.inst[i] = <<r.inst>>,
                                  !.sys_path = r.sys_path,
                                  !.actor = i]
    /\ UNCHANGED <<mainvars, qcall, ip>>

\* a script on instance i imports a module
InstanceImport(i) ==
    /\ proc.inst[i] # None
    /\ \E name \in ModuleNames, load_ok \in BOOLEAN :
         LET r == custom_import(proc.inst[i][1].allowed_modules, name, 1,
                                load_ok)
         IN  proc' = [proc EXCEPT !.inst[i][1].allowed_modules = r.cache,
                                  !.actor = i]
    /\ UNCHANGED <<mainvars, qcall, ip>>

\* run_query on instance i: lines 364-365 give the script every name of
\* self.safe_builtins
InstanceRun(i) ==
    /\ proc.inst[i] # None
    /\ proc' = [proc EXCEPT !.inst[i][1].seen = <<VisibleBuiltins(proc, i)>>,
                            !.actor = i]
    /\ UNCHANGED <<mainvars, qcall, ip>>

\* a script on instance i runs
\*     c = getattr(getattr(get_current_user, "__self__"), "__class__")
\*     setattr(c, "safe_builtins", getattr(c, "safe_builtins") + ("open",))
\* with the unguarded getattr and setattr run_query gives it
InstanceSetClassBuiltins(i) ==
    /\ proc.inst[i] # None
    /\ <<"open">> \notin SeqToSet(proc.safe_builtins)
    /\ proc' = [proc EXCEPT !.safe_builtins = Append(@, <<"open">>),
                            !.actor = i]
    /\ UNCHANGED <<mainvars, qcall, ip>>

NextTwo ==
    \E i \in Instances :
        \/ Construct(i)
        \/ InstanceImport(i)
        \/ InstanceRun(i)
        \/ InstanceSetClassBuiltins(i)

SpecTwo == Init /\ [][NextTwo]_vars

\* ============================================================== claims
\* the dict a serialized result decodes to
Data(r) == r[1][2]

\* s occurs in t as a contiguous piece
Contains(t, s) ==
    \E i \in 1..(Len(t) - Len(s) + 1) : SubSeq(t, i, i + Len(s) - 1) = s

\* the entries of allowedImportModules
ConfiguredNames ==
    IF configuration = << >> THEN {} ELSE SeqToSet(Split(configuration))

\* a text that is not blank after trimming
NonBlank(text) == \E i \in DOMAIN text : text[i] \notin Whitespace

\* the line a captured write leaves in the log
Stamped(w) == <<"[", w.ts, "] ">> \o w.text

\* the lines the writes of log leave, for the writes that satisfy Keep
CapturedLines(log, Keep(_)) ==
    LET kept == SelectSeq(log, LAMBDA w : w.enabled /\ NonBlank(w.text)
                                          /\ Keep(w))
    IN  [i \in 1..Len(kept) |-> Stamped(kept[i])]

\* the ColumnType enumeration
ColumnType == {"boolean", "integer", "float", "string", "date", "datetime"}

Returned == state \in {"Completed", "Failed"}

\* C1: every return of run_query is a pair (data, error) with exactly one
\* component non-null: data when the script compiled, ran and serialized
\* without failure, error on any failure; never both, never neither.
C1_ExactlyOneOfDataError ==
    /\ Returned <=> (ret # None)
    /\ ret # None =>
         /\ Len(ret) = 2
         /\ (ret[1] = None) # (ret[2] = None)
         /\ (cause = "none") <=> (ret[1] # None /\ ret[2] = None)

\* a return after the script ran and serialization failed
C1_Witness == state = "Failed" /\ cause = "json_dumps" /\ ret # None

\* C2: a successful execution returns exactly the columns and rows its own
\* script added, in call order, and none added by an earlier execution.
C2_ResultFreshPerExecution ==
    state = "Completed" =>
        /\ Data(ret).columns = own.columns
        /\ Data(ret).rows = own.rows

\* C3: what a Failed execution added appears neither in its own output nor
\* in the output of any later execution.
C3_FailedExecutionDiscarded ==
    /\ state = "Failed" => ret[1] = None
    /\ state = "Completed" =>
         /\ \A i \in DOMAIN Data(ret).columns :
                owners.columns[i] \notin failed_runs
         /\ \A i \in DOMAIN Data(ret).rows :
                owners.rows[i] \notin failed_runs
         /\ \A i \in DOMAIN Data(ret).log :
                owners.lines[i] \notin failed_runs

\* C4: the log a successful execution returns is exactly the lines captured
\* (enabled, non-blank writes) during that execution, in write order.
C4_LogIsOwnCapturedLines ==
    state = "Completed" =>
        Data(ret).log = CapturedLines(write_log, LAMBDA w : w.run = run)

\* C5: when compile_restricted rejects the script, run_query returns
\* (null, error) and nothing else happens: no script call, no import, no
\* change of the capture buffer, the result object or the import cache.
C5_CompileFailureHasNoEffect ==
    [][(run' # run /\ cause' = "compile") =>
          /\ state' = "Failed"
          /\ ret'[1] = None /\ ret'[2] # None
          /\ UNCHANGED <<allowed_modules, result, custom_print, log_alias,
                         load_calls, calls, write_log, last_import,
                         last_column>>]_vars

\* a rejected script on an instance that holds lines, rows and a module
C5_Witness ==
    /\ state = "Failed" /\ cause = "compile"
    /\ custom_print.lines # << >>
    /\ result.rows # << >>

Received(t, name) ==
    {thr[t].got[i] : i \in {j \in DOMAIN thr[t].got : thr[t].got[j][1] = name}}

\* import_module calls for name that raised: the thread stopped there
FailedLoads(name) ==
    Cardinality({t \in Threads : thr[t].pc = "failed" /\ thr[t].name = name})

\* C8: when executions sharing the instance import the same uncached
\* allowed module concurrently, the module is loaded once only and all of
\* them receive the same handle, in every interleaving.
C8_ConcurrentFirstImportSerialized ==
    \A name \in DOMAIN allowed_modules :
        /\ load_calls[name] - FailedLoads(name) <= 1
        /\ Cardinality(UNION {Received(t, name) : t \in Threads}) <= 1

\* C9: add_result_column with a type outside the ColumnType enumeration
\* fails and leaves columns and rows unchanged; with a type inside it
\* appends exactly one entry {name, friendly_name, type} at the end of
\* columns, whatever the names already there, and leaves rows unchanged.
C9_AddResultColumn ==
    [][last_column' # last_column =>
          LET c == last_column'[1]
              after == result'
          IN  IF c.type \in ColumnType
              THEN /\ after.columns =
                         Append(result.columns,
                                [name |-> c.name,
                                 friendly_name |-> c.friendly_name,
                                 type |-> c.type])
                   /\ after.rows = result.rows
                   /\ state' = "Running"
              ELSE /\ after = result
                   /\ state' = "Failed"
                   /\ ret'[1] = None]_vars

\* a refused column type on a result that already has a column, and a
\* duplicate column name accepted
C9_Witness ==
    /\ last_column # None
    /\ last_column[1].type \notin ColumnType
    /\ state = "Failed"
    /\ Len(result.columns) = 2
    /\ result.columns[1].name = result.columns[2].name

C11_EveryExceptionBecomesFailed ==
    (run > 0 /\ ~Running /\ cause \notin {"none", "compile", "json_dumps"}) =>
        /\ state = "Failed"
        /\ ret # None
        /\ ret[1] = None
        /\ ret[2] # None

\* the frame column k of the call recorded in last_frame, and the result
\* column the claim expects for it
ExpectedDatetimeType(df, k) ==
    IF df.data = << >> THEN "datetime"
    ELSE IF Len(AsStr(df.data[1][df.columns[k].name])) <= 10 THEN "date"
    ELSE "datetime"

\* C12: frame ingestion adds, for every frame column, exactly one result
\* column whose name and friendly_name are the frame column name; a
\* datetime-typed column is typed date when the frame is non-empty and its
\* first value renders in at most 10 characters, datetime when it renders in
\* 11 or more, and datetime when the frame is empty.
C12_FrameColumnClassification ==
    [][last_frame' # last_frame =>
          LET df == last_frame'[1].df
              n == Len(last_frame'[1].before.columns)
          IN  /\ Len(result'.columns) = n + Len(df.columns)
              /\ \A k \in DOMAIN df.columns :
                    /\ result'.columns[n + k].name = df.columns[k].name
                    /\ result'.columns[n + k].friendly_name = df.columns[k].name
                    /\ df.columns[k].dtype = "datetime64[ns]" =>
                          result'.columns[n + k].type =
                              ExpectedDatetimeType(df, k)]_vars

\* C13: dataframe_to_result appends: afterwards result.rows is the rows
\* present before the call followed by every frame row in frame order, and
\* result.columns is the columns present before followed by one column per
\* frame column; rows added earlier by add_result_row are not lost.
C13_FrameBulkAppend ==
    [][last_frame' # last_frame =>
          LET df == last_frame'[1].df
              before == last_frame'[1].before
          IN  /\ result'.rows = before.rows \o df.data
              /\ Len(result'.columns) = Len(before.columns) + Len(df.columns)
              /\ SubSeq(result'.columns, 1, Len(before.columns)) =
                     before.columns]_vars

RECURSIVE NamedParameters(_)
\* the template parameters a query text names: the keys of its variable
\* tags and of its section tags, at any depth
NamedParameters(nodes) ==
    UNION { IF nodes[i].kind = "_EscapeNode" THEN {nodes[i].key}
            ELSE IF nodes[i].kind = "_SectionNode"
            THEN {nodes[i].key} \cup NamedParameters(nodes[i].parsed)
            ELSE {} : i \in DOMAIN nodes }

\* the names an error message lists after its prefix
ListedNames(msg) == SeqToSet(Tail(msg)) \ {", "}

\* invocations of the data source's run_query made by the last call
Delegations == Len(qcall[1].trace)

C15_CaptureEnabledAtStart ==
    [][(state # "Running" /\ state' = "Running") =>
           custom_print'.enabled]_vars

\* C16: the import allow-list is fixed at construction and matched exactly:
\* the keys of the import cache are always the comma-separated entries of
\* allowedImportModules, custom_import succeeds only for a name that is one
\* of those entries, and no script execution adds or removes a name.
C16_AllowListFixed ==
    /\ DOMAIN allowed_modules = ConfiguredNames
    /\ (last_import # None /\ ~last_import[1].out.raised) =>
           last_import[1].name \in ConfiguredNames

\* the in-place operator tokens of Python
InplaceTokens == {"+=", "-=", "*=", "/=", "//=", "%=", "**=", "<<=", ">>=",
                  "|=", "^=", "&=", "@="}

\* C17: custom_inplacevar(op, x, y) evaluates the statement x op y, once, and
\* returns the new value of x (or lets the statement's exception out) only
\* when op is an in-place operator token; for any other op it raises an
\* error that names op and evaluates nothing.
C17_InplaceMediation ==
    ip # None =>
        LET c == ip[1] IN
        IF c.op \in InplaceTokens
        THEN /\ c.executed = << <<"x", c.op, "y">> >>
             /\ c.op = "+=" => (~c.out.raised /\ c.out.value = c.x + c.y)
             /\ c.op = "-=" => (~c.out.raised /\ c.out.value = c.x - c.y)
             /\ (c.op = "//=" /\ c.y # 0) =>
                    (~c.out.raised /\ c.out.value * c.y <= c.x
                                   /\ c.x < (c.out.value + 1) * c.y)
             /\ (c.op \in {"//=", "%="} /\ c.y = 0) =>
                    (c.out.raised /\ c.out.e.kind = "ZeroDivisionError")
        ELSE /\ c.executed = << >>
             /\ c.out.raised
             /\ c.out.e.kind = "Exception"
             /\ Contains(c.out.e.msg, <<c.op>>)

\* a plain assignment token handed to custom_inplacevar is refused
C17_Witness ==
    /\ ip # None
    /\ ip[1].op = "="
    /\ ip[1].x # ip[1].y
    /\ ip[1].out.raised
    /\ ip[1].executed = << >>

\* what the claim speaks of for instance i: its import cache, its
\* allow-list and the capability names its scripts get
InstanceView(p, i) ==
    [cache |-> p.inst[i][1].allowed_modules,
     allowed |-> DOMAIN p.inst[i][1].allowed_modules,
     capabilities |-> SeqToSet(VisibleBuiltins(p, i))]

\* C18: two instances in one process do not interfere: a step of one
\* instance, its construction with any configuration or an execution on it,
\* leaves the import cache, the allow-list and the capability names of the
\* other instance unchanged.
C18_InstancesDoNotInterfere ==
    [][\A j \in Instances :
          (proc'.actor # j /\ proc.inst[j] # None /\ proc'.inst[j] # None) =>
              InstanceView(proc', j) = InstanceView(proc, j)]_vars

====
